---- MODULE Spec2Model ----
(***************************************************************************)
(* Credential lifecycle and connection-pool layer of the Lakebase FastAPI  *)
(* application: src/core/database.py, src/core/auth.py and the lifespan    *)
(* functions of src/app.py and src/main.py.                                *)
(*                                                                         *)
(* Time is counted in ticks of 300 seconds (the health probe's interval).  *)
(* One action is one stretch of code that runs without reaching an await:  *)
(* the asyncio event loop runs such a stretch to its end before any other  *)
(* coroutine runs.  The blocking SDK calls (WorkspaceClient, database      *)
(* credential issuance) and the database round trips of one probe are far  *)
(* shorter than a tick, so the clock does not advance inside an action.    *)
(***************************************************************************)
EXTENDS Integers, FiniteSets, Sequences, TLC

\* ---------------------------------------------------------------- bounds
MaxTime == 20          \* the clock stops here
MaxCalls == 3          \* calls to generate_database_credential by requests
NumReq == 2            \* PerCaller requests in flight at once

\* ------------------------------------------------- program constants (ticks)
HARD_EXPIRY == 12                 \* provider lifetime of a token: 60 minutes
\* (a refresher whose sleep outlasts a token's lifetime)
RefreshIntervalLong == HARD_EXPIRY + 1
REFRESH_INTERVAL == 10            \* asyncio.sleep(50 * 60)
USER_TOKEN_CACHE_DURATION == 9    \* 45 * 60
TOKEN_TTL_SECONDS == 11           \* 55 * 60
POOL_RECYCLE == 12                \* DB_POOL_RECYCLE_INTERVAL, 3600
HEALTH_INTERVAL == 1              \* check_database_health(300)

VARIABLES
    now,                      \* time.time(), in ticks
    user_based_auth_enabled,  \* database.py:30
    entrypoint,               \* "app" (src/app.py) or "main" (src/main.py)
    lifespan_pc,              \* position of the lifespan coroutine
    workspace_client,         \* database.py:21 (set or None)
    database_instance,        \* database.py:22 (set or None)
    engine,                   \* database.py:19 (set or None)
    AsyncSessionLocal,        \* database.py:20 (set or None)
    postgres_password,        \* database.py:25
    last_password_refresh,    \* database.py:26
    token_refresh_task,       \* database.py:27
    health_check_task,        \* local of lifespan
    pool,                     \* connections of the shared engine's QueuePool
    req,                      \* the requests in flight
    user_credential_cache,    \* database.py:33
    auth_credentials_cache,   \* auth.py:17 (_user_credentials_cache)
    provider_calls,           \* calls made to generate_database_credential
    ws_clients,               \* per-user WorkspaceClient objects built
    refresh_failures,         \* failed refresher attempts since the last publish
    dependency,               \* the session dependency the routers use: get_db
                              \* ("db", "shared"), auth.py alone ("auth"),
                              \* get_db_session ("session")
    clients,                  \* the forwarded headers requests arrive with
    flight_calls,             \* issuance calls per identity while lookups overlap
    user_engines,             \* per-request engines created and not yet disposed
    env_user_based            \* os.environ: USER_BASED_AUTHENTICATION is "true"

vars == << now, user_based_auth_enabled, entrypoint, lifespan_pc,
           workspace_client, database_instance, engine, AsyncSessionLocal,
           postgres_password, last_password_refresh, token_refresh_task,
           health_check_task, pool, req, user_credential_cache,
           auth_credentials_cache, provider_calls, ws_clients,
           refresh_failures, dependency, clients, env_user_based, flight_calls, user_engines >>

sharedVars == << workspace_client, database_instance, engine, AsyncSessionLocal,
                 postgres_password, last_password_refresh >>
taskVars == << token_refresh_task, health_check_task >>
userVars == << user_credential_cache, auth_credentials_cache, ws_clients,
               dependency, clients, env_user_based, flight_calls, user_engines >>

\* ---------------------------------------------------------------- values
Req == DOMAIN req

\* A database token as the provider minted it: serial number, mint time, and
\* the authority it was minted under ("sp" is the app's service principal).
NoToken == [n |-> 0, at |-> 0, by |-> "none"]
Token(n, at, by) == [n |-> n, at |-> at, by |-> by]

\* cred.token of a successful generate_database_credential call.
MintToken(by) == Token(provider_calls + 1, now, by)

\* A database connection: when it was opened and the password it was opened with.
NoConn == [open |-> FALSE, opened_at |-> 0, token |-> NoToken]
NoTask == [st |-> "none", wake_at |-> 0, cancel |-> FALSE, conn |-> NoConn,
           healthy |-> "none"]

Absent == "<absent>"
Headers(tok, email, user) == [tok |-> tok, email |-> email, user |-> user]

\* Requests of one caller, "alice": with and without the access-token header.
AliceClients == {Headers("t1", "alice", Absent), Headers(Absent, "alice", Absent)}

\* Every combination of the three forwarded headers, present, missing or
\* empty, sent by one caller at a time.
HeaderClients ==
    {Headers(t, e, u) : t \in {"t1", Absent, ""}, e \in {"alice", Absent, ""},
                        u \in {"bob", Absent, ""}}

\* Two callers, "alice" and "bob", each with their own access token.
PairClients == {Headers("t1", "alice", Absent), Headers("t2", "bob", Absent)}

\* Two callers, each with their own access token, whose requests carry
\* neither identity header.
AnonClients == {Headers("t1", Absent, Absent), Headers("t2", Absent, Absent)}

ClientSets == {AliceClients, HeaderClients, PairClients, AnonClients}

\* The request slots a set of clients is given.
Slots(cl) ==
    IF cl = HeaderClients THEN {1}
    ELSE IF cl = PairClients THEN {1, 2}
    ELSE 1..NumReq

\* The strings a cache key can be: a dict takes any string, the empty one
\* among them.
Identities == {"alice", "bob", "unknown_user", ""}

NoEntry == [present |-> FALSE, token |-> NoToken, expires_at |-> 0]
NoAuthEntry == [present |-> FALSE, db_oauth_token |-> NoToken,
                token_created_at |-> 0, access_token |-> Absent]

IdleReq == [pc |-> "idle", path |-> "none", hdr_token |-> Absent,
            hdr_email |-> Absent, hdr_user |-> Absent, ident |-> "",
            cred |-> NoToken, result |-> "none", stale |-> FALSE,
            engine |-> FALSE, conn |-> NoConn, exc |-> "none"]

\* ---------------------------------------------------------------- Init
Init ==
    /\ now = 0
    /\ user_based_auth_enabled \in BOOLEAN
    /\ entrypoint \in {"app", "main"}
    /\ lifespan_pc = "start"
    /\ workspace_client = FALSE
    /\ database_instance = FALSE
    /\ engine = FALSE
    /\ AsyncSessionLocal = FALSE
    /\ postgres_password = NoToken
    /\ last_password_refresh = 0
    /\ token_refresh_task = NoTask
    /\ health_check_task = NoTask
    /\ pool = << >>
    /\ clients \in IF user_based_auth_enabled THEN ClientSets
                   ELSE {{Headers(Absent, Absent, Absent)}}
    /\ req = [r \in (IF user_based_auth_enabled THEN Slots(clients) ELSE {1}) |-> IdleReq]
    /\ user_credential_cache = [i \in Identities |-> NoEntry]
    /\ auth_credentials_cache = [i \in Identities |-> NoAuthEntry]
    /\ provider_calls = 0
    /\ ws_clients = 0
    /\ refresh_failures = 0
    /\ dependency \in IF user_based_auth_enabled THEN {"db", "auth", "session"}
                      ELSE {"shared", "session"}
    /\ env_user_based = user_based_auth_enabled
    /\ flight_calls = [i \in Identities |-> 0]
    /\ user_engines = 0

\* ------------------------------------------------------------ asyncio tasks
\* asyncio.create_task: the coroutine's first stretch runs at the loop's next
\* turn, at the same clock reading.
NewTask(wake) == [NoTask EXCEPT !.st = "sleeping", !.wake_at = wake]

\* The probe task back at its sleep, is_healthy being database_health()'s
\* result ("yes" for True, "no" for False).
ProbeSleeps(is_healthy) ==
    [NewTask(now + HEALTH_INTERVAL) EXCEPT !.healthy = is_healthy]

\* task is not None and not task.done()
TaskAlive(t) == t.st \in {"sleeping", "probing"}

\* Task.cancel(): CancelledError is thrown into the coroutine at the await it
\* is suspended on, when the task next runs.
CancelTask(t) == IF TaskAlive(t) THEN [t EXCEPT !.cancel = TRUE] ELSE t

\* ------------------------------------------------- the shared engine's pool
\* pool is the QueuePool's queue of idle connections, first in first out.  A
\* Shared-mode request shares nothing with another but this pool, and the
\* model has one at a time, contending with the probe; the consumers stay
\* below pool_size, so neither overflow nor pool_timeout arises.

\* do_connect: provide_token puts the current postgres_password in cparams.
provide_token == postgres_password

\* A new connection of the shared engine.
Connect == [open |-> TRUE, opened_at |-> now, token |-> provide_token]

\* pool_recycle: a connection older than the interval is reopened at checkout.
Recycled(c) == now - c.opened_at > POOL_RECYCLE

\* The connection a checkout hands out.
Checkout ==
    IF pool = << >> THEN Connect
    ELSE IF Recycled(Head(pool)) THEN Connect
    ELSE Head(pool)

\* The idle queue after a checkout, and after connection c is returned.
AfterCheckout == IF pool = << >> THEN pool ELSE Tail(pool)
Release(p, c) == IF c.open THEN Append(p, c) ELSE p

\* ---------------------------------------------------------------- init_engine
InitFailPoints == {"none", "client", "instance", "credential", "engine"}

\* init_engine(), raising at fail_at ("none": it returns normally).
init_engine(fail_at) ==
    IF user_based_auth_enabled
    THEN UNCHANGED << sharedVars, provider_calls >>
    ELSE /\ workspace_client' = (fail_at # "client")
         /\ database_instance' = (fail_at \notin {"client", "instance"})
         /\ provider_calls' =
                IF fail_at \in {"client", "instance"} THEN provider_calls
                ELSE provider_calls + 1
         /\ IF fail_at \in {"none", "engine"}
            THEN /\ postgres_password' = MintToken("sp")
                 /\ last_password_refresh' = now
            ELSE UNCHANGED << postgres_password, last_password_refresh >>
         /\ engine' = (fail_at = "none")
         /\ AsyncSessionLocal' = (fail_at = "none")

\* Whether init_engine(fail_at) raises RuntimeError.
InitRaises(fail_at) == ~user_based_auth_enabled /\ fail_at # "none"

\* ---------------------------------------------------------------- lifespan
\* Startup up to the first await (engine.begin()).
LifespanStartup(database_exists, fail_at) ==
    /\ lifespan_pc = "start"
    /\ UNCHANGED << now, user_based_auth_enabled, entrypoint, token_refresh_task,
                    pool, req, userVars, refresh_failures >>
    /\ IF entrypoint = "app"
       THEN IF ~database_exists
            THEN /\ lifespan_pc' = "running"
                 /\ UNCHANGED << sharedVars, provider_calls, health_check_task >>
            ELSE IF user_based_auth_enabled
            THEN /\ health_check_task' = NewTask(now)
                 /\ lifespan_pc' = "running"
                 /\ UNCHANGED << sharedVars, provider_calls >>
            ELSE /\ init_engine(fail_at)
                 /\ lifespan_pc' = IF InitRaises(fail_at) THEN "running" ELSE "create_all"
                 /\ UNCHANGED health_check_task
       ELSE /\ init_engine(fail_at)
            /\ lifespan_pc' =
                   IF InitRaises(fail_at) \/ user_based_auth_enabled
                   THEN "crashed" ELSE "create_all"
            /\ UNCHANGED health_check_task

\* start_token_refresh()
start_token_refresh ==
    IF ~TaskAlive(token_refresh_task)
    THEN NewTask(now + REFRESH_INTERVAL)
    ELSE token_refresh_task

\* async with engine.begin(): create_all, then start_token_refresh() and the
\* health task; ok = FALSE: the connection or the DDL raises.
LifespanCreateAll(ok) ==
    /\ lifespan_pc = "create_all"
    /\ UNCHANGED << now, user_based_auth_enabled, entrypoint, sharedVars, req,
                    userVars, provider_calls, refresh_failures >>
    /\ IF ok
       THEN /\ pool' = Release(AfterCheckout, Checkout)
            /\ token_refresh_task' = start_token_refresh
            /\ health_check_task' = NewTask(now)
            /\ lifespan_pc' = "running"
       ELSE /\ UNCHANGED << pool, taskVars >>
            /\ lifespan_pc' = IF entrypoint = "app" THEN "running" ELSE "crashed"

\* The head of stop_token_refresh(): cancel the task if it is alive.
stop_token_refresh == CancelTask(token_refresh_task)

\* Where the lifespan goes after the health task has been awaited.
AfterHealth(refresher) ==
    IF entrypoint = "app" /\ user_based_auth_enabled THEN "complete"
    ELSE IF TaskAlive(refresher) THEN "await_refresh"
    ELSE "complete"

\* The server runs the shutdown half of the lifespan once the requests in
\* flight have been answered.
LifespanShutdown ==
    /\ lifespan_pc = "running"
    /\ \A r \in Req : req[r].pc = "idle"
    /\ UNCHANGED << now, user_based_auth_enabled, entrypoint, sharedVars, pool, req,
                    userVars, provider_calls, refresh_failures >>
    /\ IF health_check_task.st # "none"
       THEN /\ health_check_task' = CancelTask(health_check_task)
            /\ lifespan_pc' = "await_health"
            /\ UNCHANGED token_refresh_task
       ELSE /\ UNCHANGED health_check_task
            /\ IF entrypoint = "app" /\ user_based_auth_enabled
               THEN UNCHANGED token_refresh_task
               ELSE token_refresh_task' = stop_token_refresh
            /\ lifespan_pc' = AfterHealth(token_refresh_task)

\* await health_check_task returns (CancelledError is caught); then
\* stop_token_refresh() cancels the refresher.
LifespanHealthAwaited ==
    /\ lifespan_pc = "await_health"
    /\ ~TaskAlive(health_check_task)
    /\ UNCHANGED << now, user_based_auth_enabled, entrypoint, sharedVars, pool, req,
                    userVars, provider_calls, refresh_failures,
                    health_check_task >>
    /\ IF entrypoint = "app" /\ user_based_auth_enabled
       THEN UNCHANGED token_refresh_task
       ELSE token_refresh_task' = stop_token_refresh
    /\ lifespan_pc' = AfterHealth(token_refresh_task)

\* (stop_token_refresh() returning without awaiting the cancelled task)
LifespanRefreshNotAwaited ==
    /\ lifespan_pc = "await_refresh"
    /\ lifespan_pc' = "complete"
    /\ UNCHANGED << now, user_based_auth_enabled, entrypoint, sharedVars, pool, req,
                    userVars, provider_calls, refresh_failures, taskVars >>

\* await token_refresh_task returns in stop_token_refresh().
LifespanRefreshAwaited ==
    /\ lifespan_pc = "await_refresh"
    /\ ~TaskAlive(token_refresh_task)
    /\ lifespan_pc' = "complete"
    /\ UNCHANGED << now, user_based_auth_enabled, entrypoint, sharedVars, pool, req,
                    userVars, provider_calls, refresh_failures, taskVars >>

\* ------------------------------------------------- refresh_token_background
\* (the loop with its try around the while: a failed issuance ends the task)
refresh_token_background_fatal(ok) ==
    /\ token_refresh_task.st = "sleeping"
    /\ ~token_refresh_task.cancel
    /\ now = token_refresh_task.wake_at
    /\ provider_calls' = provider_calls + 1
    /\ IF ok
       THEN /\ postgres_password' = MintToken("sp")
            /\ last_password_refresh' = now
            /\ refresh_failures' = 0
            /\ token_refresh_task' = NewTask(now + REFRESH_INTERVAL)
       ELSE /\ UNCHANGED << postgres_password, last_password_refresh >>
            /\ refresh_failures' = refresh_failures + 1
            /\ token_refresh_task' = [NoTask EXCEPT !.st = "failed"]
    /\ UNCHANGED << now, user_based_auth_enabled, entrypoint, lifespan_pc,
                    workspace_client, database_instance, engine, AsyncSessionLocal,
                    health_check_task, pool, req, userVars >>

\* One turn of the loop: the sleep ends, the credential is issued (ok) or the
\* call raises (~ok), and the task is back at the sleep.  There is no await
\* between the end of the sleep and the next sleep.
refresh_token_background(ok) ==
    /\ token_refresh_task.st = "sleeping"
    /\ ~token_refresh_task.cancel
    /\ now = token_refresh_task.wake_at
    /\ provider_calls' = provider_calls + 1
    /\ IF ok
       THEN /\ postgres_password' = MintToken("sp")
            /\ last_password_refresh' = now
            /\ refresh_failures' = 0
       ELSE /\ UNCHANGED << postgres_password, last_password_refresh >>
            /\ refresh_failures' = refresh_failures + 1
    /\ token_refresh_task' = NewTask(now + REFRESH_INTERVAL)
    /\ UNCHANGED << now, user_based_auth_enabled, entrypoint, lifespan_pc,
                    workspace_client, database_instance, engine, AsyncSessionLocal,
                    health_check_task, pool, req, userVars >>

\* CancelledError reaches the refresher at its sleep; except Exception does
\* not catch it and the task ends.
RefresherCancelled ==
    /\ token_refresh_task.st = "sleeping"
    /\ token_refresh_task.cancel
    /\ token_refresh_task' = [token_refresh_task EXCEPT !.st = "cancelled"]
    /\ UNCHANGED << now, user_based_auth_enabled, entrypoint, lifespan_pc, sharedVars,
                    health_check_task, pool, req, userVars, provider_calls,
                    refresh_failures >>

\* ------------------------------------------------- check_database_health
\* database_health() up to its first await: engine.connect() checks a
\* connection out (connected) or raises (~connected); with no engine it
\* returns False at once.
HealthProbeStart(connected) ==
    /\ health_check_task.st = "sleeping"
    /\ ~health_check_task.cancel
    /\ now = health_check_task.wake_at
    /\ IF engine /\ connected
       THEN /\ pool' = AfterCheckout
            /\ health_check_task' =
                   [health_check_task EXCEPT !.st = "probing", !.conn = Checkout,
                                             !.healthy = "none"]
       ELSE /\ health_check_task' = ProbeSleeps("no")
            /\ UNCHANGED pool
    /\ UNCHANGED << now, user_based_auth_enabled, entrypoint, lifespan_pc, sharedVars,
                    token_refresh_task, req, userVars, provider_calls,
                    refresh_failures >>

\* (database_health without its try: the query's exception leaves the loop)
HealthProbeFinishRaises(ok) ==
    /\ health_check_task.st = "probing"
    /\ ~health_check_task.cancel
    /\ pool' = Release(pool, health_check_task.conn)
    /\ health_check_task' =
           IF ok THEN ProbeSleeps("yes") ELSE [NoTask EXCEPT !.st = "failed"]
    /\ UNCHANGED << now, user_based_auth_enabled, entrypoint, lifespan_pc, sharedVars,
                    token_refresh_task, req, userVars, provider_calls,
                    refresh_failures >>

\* SELECT 1 returns (ok) or raises; the connection goes back to the pool,
\* database_health() returns True or, the exception caught, False, and the
\* loop sleeps for the interval.
HealthProbeFinish(ok) ==
    /\ health_check_task.st = "probing"
    /\ ~health_check_task.cancel
    /\ pool' = Release(pool, health_check_task.conn)
    /\ health_check_task' = ProbeSleeps(IF ok THEN "yes" ELSE "no")
    /\ UNCHANGED << now, user_based_auth_enabled, entrypoint, lifespan_pc, sharedVars,
                    token_refresh_task, req, userVars, provider_calls,
                    refresh_failures >>

\* CancelledError reaches the probe at its sleep or inside database_health().
HealthCancelled ==
    /\ TaskAlive(health_check_task)
    /\ health_check_task.cancel
    /\ pool' = Release(pool, health_check_task.conn)
    /\ health_check_task' = [health_check_task EXCEPT !.st = "cancelled", !.conn = NoConn]
    /\ UNCHANGED << now, user_based_auth_enabled, entrypoint, lifespan_pc, sharedVars,
                    token_refresh_task, req, userVars, provider_calls,
                    refresh_failures >>

\* ---------------------------------------------------------------- the clock
TimerDue(t) == t.st = "sleeping" /\ ~t.cancel /\ t.wake_at <= now

\* Work that ends well within one tick: a request being served, a probe's
\* query, a pending cancellation, the startup and shutdown of the lifespan.
Busy ==
    \/ \E r \in Req : req[r].pc # "idle"
    \/ health_check_task.st = "probing"
    \/ health_check_task.cancel /\ TaskAlive(health_check_task)
    \/ token_refresh_task.cancel /\ TaskAlive(token_refresh_task)
    \/ lifespan_pc \in {"start", "create_all", "await_health", "await_refresh"}

Tick ==
    /\ now < MaxTime
    /\ ~Busy
    /\ ~TimerDue(token_refresh_task)
    /\ ~TimerDue(health_check_task)
    /\ now' = now + 1
    /\ UNCHANGED << user_based_auth_enabled, entrypoint, lifespan_pc, sharedVars,
                    taskVars, pool, req, userVars, provider_calls, refresh_failures >>

\* ---------------------------------------------------------------- requests
\* (the header compared with None: an empty header counts as present)
FalsyNoneOnly(h) == h = Absent

\* not header: the header is missing or empty.
Falsy(h) == h \in {Absent, ""}

\* (one cache key for every caller)
DbIdentityShared(q) == "unknown_user"

\* (the forwarded-user header ignored)
DbIdentityNoFallback(q) ==
    IF ~Falsy(q.hdr_email) THEN q.hdr_email ELSE "unknown_user"

\* get_user_async_db: the cache key taken from the forwarded headers.
DbIdentity(q) ==
    IF ~Falsy(q.hdr_email) THEN q.hdr_email
    ELSE IF ~Falsy(q.hdr_user) THEN q.hdr_user
    ELSE "unknown_user"

\* (the header check left out)
DbRejectsNever(q) == FALSE

\* get_user_async_db raises for a missing access token.
DbRejects(q) == Falsy(q.hdr_token)

\* get_user_credentials_from_request raises 401 for a missing header.
AuthRejects(q) == Falsy(q.hdr_email) \/ Falsy(q.hdr_token)

\* The identity a request's credential lookup is for ("" when the request is
\* rejected before the lookup, and in Shared mode).
LookupIdent(q) ==
    IF q.path = "db" THEN (IF DbRejects(q) THEN "" ELSE DbIdentity(q))
    ELSE IF q.path = "auth" THEN (IF AuthRejects(q) THEN "" ELSE q.hdr_email)
    ELSE ""

\* Request q is inside a credential lookup for identity i: past the cache
\* check and not yet back from the lookup.
InLookup(q, i) == q.pc \in {"issuing", "storing"} /\ q.ident = i

OthersInLookup(r, i) == \E o \in Req \ {r} : InLookup(req[o], i)

\* flight_calls after request r's lookup step for identity i, which made
\* `calls` issuance calls and left r at pc: the count restarts when no lookup
\* for i is left under way.
FlightAfter(r, i, calls, pc) ==
    IF OthersInLookup(r, i) \/ pc \in {"issuing", "storing"}
    THEN [flight_calls EXCEPT ![i] = @ + calls]
    ELSE [flight_calls EXCEPT ![i] = 0]

\* Requests whose credential lookup has not ended.
InFlight == {o \in Req : req[o].pc \in {"pending", "issuing", "storing"}}

\* dependencies.py: the mode as the environment has it at this moment.
is_user_based_auth == env_user_based

\* The session provider a request is routed to.  get_db decides by the module
\* global user_based_auth_enabled, get_db_session by is_user_based_auth();
\* the per-user provider get_db_session names, get_user_db_session, resolves
\* the caller's credentials through auth.py.
Route ==
    IF dependency = "session"
    THEN (IF is_user_based_auth THEN "auth" ELSE "shared")
    ELSE dependency

\* The server hands a request to its session dependency.
Arrive(r, h) ==
    /\ lifespan_pc = "running"
    /\ req[r].pc = "idle"
    /\ Route # "shared" => provider_calls + Cardinality(InFlight) < MaxCalls
    /\ req' = [req EXCEPT ![r] = [IdleReq EXCEPT !.pc = "pending", !.path = Route,
                                     !.hdr_token = h.tok, !.hdr_email = h.email,
                                     !.hdr_user = h.user]]
    /\ UNCHANGED << now, user_based_auth_enabled, entrypoint, lifespan_pc, sharedVars,
                    taskVars, pool, userVars, provider_calls, refresh_failures >>

\* (a request path that renews the shared token itself when it finds it old)
get_async_db_renewing(r) ==
    /\ req[r].pc = "pending"
    /\ req[r].path = "shared"
    /\ req' = [req EXCEPT ![r] =
                  IF AsyncSessionLocal
                  THEN [@ EXCEPT !.pc = "session"]
                  ELSE [@ EXCEPT !.pc = "failed", !.result = "error",
                                 !.exc = "RuntimeError"]]
    /\ IF AsyncSessionLocal /\ now - last_password_refresh >= REFRESH_INTERVAL
       THEN /\ postgres_password' = MintToken("sp")
            /\ last_password_refresh' = now
            /\ provider_calls' = provider_calls + 1
       ELSE UNCHANGED << postgres_password, last_password_refresh, provider_calls >>
    /\ UNCHANGED << now, user_based_auth_enabled, entrypoint, lifespan_pc,
                    workspace_client, database_instance, engine, AsyncSessionLocal,
                    taskVars, pool, userVars, refresh_failures >>

\* get_db -> get_async_db: a session of the shared factory, or RuntimeError.
get_async_db(r) ==
    /\ req[r].pc = "pending"
    /\ req[r].path = "shared"
    /\ req' = [req EXCEPT ![r] =
                  IF AsyncSessionLocal
                  THEN [@ EXCEPT !.pc = "session"]
                  ELSE [@ EXCEPT !.pc = "failed", !.result = "error",
                                 !.exc = "RuntimeError"]]
    /\ UNCHANGED << now, user_based_auth_enabled, entrypoint, lifespan_pc, sharedVars,
                    taskVars, pool, userVars, provider_calls, refresh_failures >>

\* The handler's first statement on a shared session checks a connection out.
SessionCheckout(r) ==
    /\ req[r].pc = "session"
    /\ req[r].path = "shared"
    /\ ~req[r].conn.open
    /\ pool' = AfterCheckout
    /\ req' = [req EXCEPT ![r].conn = Checkout]
    /\ UNCHANGED << now, user_based_auth_enabled, entrypoint, lifespan_pc, sharedVars,
                    taskVars, userVars, provider_calls, refresh_failures >>

\* A request whose unit of work has ended: answered (ok), or left with the
\* exception its handler raised.
Finished(q, ok) ==
    IF ok THEN IdleReq
    ELSE [q EXCEPT !.pc = "failed", !.result = "error", !.exc = "SQLAlchemyError",
                   !.engine = FALSE, !.conn = NoConn]

\* The handler returns (ok) or raises into the generator at its yield: async
\* with AsyncSessionLocal() exits and the connection returns to the pool.
SessionClose(r, ok) ==
    /\ req[r].pc = "session"
    /\ req[r].path = "shared"
    /\ pool' = Release(pool, req[r].conn)
    /\ req' = [req EXCEPT ![r] = Finished(req[r], ok)]
    /\ UNCHANGED << now, user_based_auth_enabled, entrypoint, lifespan_pc, sharedVars,
                    taskVars, userVars, provider_calls, refresh_failures >>

\* The status of the response to a request that raised exc: an HTTPException
\* carries its own; SQLAlchemyError, OperationalError and TimeoutError have
\* handlers in app.py; for any other exception, RuntimeError among them, no
\* handler is registered and the server answers 500.
ResponseStatus(exc) ==
    CASE exc = "HTTPException401" -> 401
      [] exc = "HTTPException500" -> 500
      [] exc = "SQLAlchemyError" -> 500
      [] exc = "OperationalError" -> 503
      [] exc = "TimeoutError" -> 504
      [] OTHER -> 500

\* The error of a failed request is sent back.
Respond(r) ==
    /\ req[r].pc = "failed"
    /\ req' = [req EXCEPT ![r] = IdleReq]
    /\ UNCHANGED << now, user_based_auth_enabled, entrypoint, lifespan_pc, sharedVars,
                    taskVars, pool, userVars, provider_calls, refresh_failures >>

\* ------------------------------------------------- PerCaller: database.py
\* (the expiry comparison reversed)
CacheHitReversed(i) ==
    /\ user_credential_cache[i].present
    /\ now > user_credential_cache[i].expires_at

\* (the expiry comparison left out)
CacheHitStale(i) == user_credential_cache[i].present

\* get_user_credentials_from_cache returns the entry.
CacheHit(i) ==
    /\ user_credential_cache[i].present
    /\ now < user_credential_cache[i].expires_at

\* get_db -> get_user_async_db up to its yield: header check, identity,
\* generate_user_db_credentials (cache, else issuance: ok or raising) and the
\* per-request engine.  The stretch has no await.
get_user_async_db(r, ok) ==
    /\ req[r].pc = "pending"
    /\ req[r].path = "db"
    /\ LET q == req[r]
           i == DbIdentity(q)
       IN IF DbRejects(q)
          THEN /\ ok
               /\ req' = [req EXCEPT ![r] = [q EXCEPT !.pc = "failed", !.result = "rejected",
                                                       !.exc = "RuntimeError"]]
               /\ UNCHANGED << user_credential_cache, provider_calls, ws_clients,
                               database_instance, flight_calls, user_engines >>
          ELSE IF CacheHit(i)
          THEN /\ ok
               /\ req' = [req EXCEPT ![r] =
                             [q EXCEPT !.pc = "session", !.result = "cached", !.ident = i,
                                       !.cred = user_credential_cache[i].token,
                                       !.engine = TRUE]]
               /\ flight_calls' = FlightAfter(r, i, 0, "session")
               /\ user_engines' = user_engines + 1
               /\ UNCHANGED << user_credential_cache, provider_calls, ws_clients,
                               database_instance >>
          ELSE /\ ws_clients' = ws_clients + 1
               /\ provider_calls' = provider_calls + 1
               /\ database_instance' = TRUE
               /\ IF ok
                  THEN /\ user_credential_cache' =
                              [user_credential_cache EXCEPT ![i] =
                                  [present |-> TRUE, token |-> MintToken(q.hdr_token),
                                   expires_at |-> now + USER_TOKEN_CACHE_DURATION]]
                       /\ req' = [req EXCEPT ![r] =
                                     [q EXCEPT !.pc = "session", !.result = "issued",
                                               !.ident = i, !.engine = TRUE,
                                               !.stale = user_credential_cache[i].present,
                                               !.cred = MintToken(q.hdr_token)]]
                       /\ flight_calls' = FlightAfter(r, i, 1, "session")
                       /\ user_engines' = user_engines + 1
                  ELSE /\ user_credential_cache' =
                              [user_credential_cache EXCEPT ![i] = NoEntry]
                       /\ req' = [req EXCEPT ![r] =
                                     [q EXCEPT !.pc = "failed", !.result = "error",
                                               !.ident = i, !.exc = "RuntimeError",
                                               !.stale = user_credential_cache[i].present]]
                       /\ flight_calls' = FlightAfter(r, i, 1, "failed")
                       /\ UNCHANGED user_engines
    /\ UNCHANGED << now, user_based_auth_enabled, entrypoint, lifespan_pc,
                    workspace_client, engine, AsyncSessionLocal, postgres_password,
                    last_password_refresh, taskVars, pool, auth_credentials_cache,
                    dependency, clients, env_user_based, refresh_failures >>

\* The handler's first statement on a per-user session: the per-request
\* engine connects with the credential in its URL.
UserSessionConnect(r) ==
    /\ req[r].pc = "session"
    /\ req[r].engine
    /\ ~req[r].conn.open
    /\ req' = [req EXCEPT ![r].conn =
                  [open |-> TRUE, opened_at |-> now, token |-> req[r].cred]]
    /\ UNCHANGED << now, user_based_auth_enabled, entrypoint, lifespan_pc, sharedVars,
                    taskVars, pool, userVars, provider_calls, refresh_failures >>

\* (user_engine.dispose() after the with block instead of in a finally)
UserSessionCloseNoFinally(r, ok) ==
    /\ req[r].pc = "session"
    /\ req[r].path \in {"db", "auth"}
    /\ req' = [req EXCEPT ![r] = Finished(req[r], ok)]
    /\ user_engines' = IF req[r].engine /\ ok THEN user_engines - 1 ELSE user_engines
    /\ UNCHANGED << now, user_based_auth_enabled, entrypoint, lifespan_pc, sharedVars,
                    taskVars, pool, user_credential_cache, auth_credentials_cache,
                    ws_clients, dependency, clients, env_user_based, flight_calls, provider_calls,
                    refresh_failures >>

\* The handler returns (ok) or raises into the generator at its yield: the
\* per-user session's scope exits; finally: user_engine.dispose().
UserSessionClose(r, ok) ==
    /\ req[r].pc = "session"
    /\ req[r].path \in {"db", "auth"}
    /\ req' = [req EXCEPT ![r] = Finished(req[r], ok)]
    /\ user_engines' = IF req[r].engine THEN user_engines - 1 ELSE user_engines
    /\ UNCHANGED << now, user_based_auth_enabled, entrypoint, lifespan_pc, sharedVars,
                    taskVars, pool, user_credential_cache, auth_credentials_cache,
                    ws_clients, dependency, clients, env_user_based, flight_calls, provider_calls,
                    refresh_failures >>

\* ------------------------------------------------- PerCaller: auth.py
\* (the check made against the hard expiry itself)
is_token_expired_late(e) == (now - e.token_created_at) > HARD_EXPIRY

\* UserCredentials.is_token_expired()
is_token_expired(e) == (now - e.token_created_at) > TOKEN_TTL_SECONDS

\* get_or_create_user_credentials up to the issuance call: header check and
\* cache check.  The function is synchronous and takes no lock: between its
\* cache check and its store, which a blocking network call separates,
\* another caller's check or store may run.
get_or_create_user_credentials(r) ==
    /\ req[r].pc = "pending"
    /\ req[r].path = "auth"
    /\ LET q == req[r]
           i == q.hdr_email
       IN IF AuthRejects(q)
          THEN /\ req' = [req EXCEPT ![r] = [q EXCEPT !.pc = "failed", !.result = "rejected",
                                                       !.exc = "HTTPException401"]]
               /\ UNCHANGED flight_calls
          ELSE IF auth_credentials_cache[i].present
                  /\ ~is_token_expired(auth_credentials_cache[i])
          THEN /\ req' = [req EXCEPT ![r] =
                             [q EXCEPT !.pc = "session", !.result = "cached", !.ident = i,
                                       !.cred = auth_credentials_cache[i].db_oauth_token]]
               /\ flight_calls' = FlightAfter(r, i, 0, "session")
          ELSE /\ req' = [req EXCEPT ![r] =
                             [q EXCEPT !.pc = "issuing", !.ident = i,
                                       !.stale = auth_credentials_cache[i].present]]
               /\ flight_calls' = FlightAfter(r, i, 0, "issuing")
    /\ UNCHANGED << now, user_based_auth_enabled, entrypoint, lifespan_pc, sharedVars,
                    taskVars, pool, user_credential_cache, auth_credentials_cache,
                    ws_clients, dependency, clients, env_user_based, provider_calls, refresh_failures,
                    user_engines >>

\* get_or_create_user_credentials from the cache miss to the provider's
\* answer: the user's WorkspaceClient and the issuance call (ok or raising).
\* The provider mints the token when the call reaches it; the caller holds
\* the answer in a local until it stores it.
create_user_credentials(r, ok) ==
    /\ req[r].pc = "issuing"
    /\ LET q == req[r]
           i == q.ident
       IN /\ ws_clients' = ws_clients + 1
          /\ provider_calls' = provider_calls + 1
          /\ IF ok
             THEN /\ req' = [req EXCEPT ![r] =
                                [q EXCEPT !.pc = "storing",
                                          !.cred = MintToken(q.hdr_token)]]
                  /\ flight_calls' = FlightAfter(r, i, 1, "storing")
             ELSE /\ req' = [req EXCEPT ![r] = [q EXCEPT !.pc = "failed", !.result = "error",
                                                          !.exc = "HTTPException500"]]
                  /\ flight_calls' = FlightAfter(r, i, 1, "failed")
    /\ UNCHANGED << now, user_based_auth_enabled, entrypoint, lifespan_pc, sharedVars,
                    taskVars, pool, user_credential_cache, auth_credentials_cache,
                    dependency, clients, env_user_based, refresh_failures, user_engines >>

\* The end of get_or_create_user_credentials: the answer of the caller's own
\* issuance call is written over whatever the cache holds for the identity
\* and returned.  Callers whose calls overlapped store in the order their
\* answers arrive, which need not be the order the provider minted them in.
store_user_credentials(r) ==
    /\ req[r].pc = "storing"
    /\ LET q == req[r]
           i == q.ident
       IN /\ auth_credentials_cache' =
                 [auth_credentials_cache EXCEPT ![i] =
                     [present |-> TRUE, db_oauth_token |-> q.cred,
                      token_created_at |-> now, access_token |-> q.hdr_token]]
          /\ req' = [req EXCEPT ![r] = [q EXCEPT !.pc = "session", !.result = "issued"]]
          /\ flight_calls' = FlightAfter(r, i, 0, "session")
    /\ UNCHANGED << now, user_based_auth_enabled, entrypoint, lifespan_pc, sharedVars,
                    taskVars, pool, user_credential_cache, ws_clients, provider_calls,
                    dependency, clients, env_user_based, refresh_failures, user_engines >>

\* The environment variable USER_BASED_AUTHENTICATION is changed while the
\* process runs.
EnvChange ==
    /\ lifespan_pc = "running"
    /\ env_user_based' = ~env_user_based
    /\ UNCHANGED << now, user_based_auth_enabled, entrypoint, lifespan_pc, sharedVars,
                    taskVars, pool, req, user_credential_cache,
                    auth_credentials_cache, ws_clients, dependency, clients,
                    flight_calls, user_engines, provider_calls, refresh_failures >>

\* ---------------------------------------------------------------- Spec
Next ==
    \/ \E e \in BOOLEAN, f \in InitFailPoints : LifespanStartup(e, f)
    \/ \E ok \in BOOLEAN : LifespanCreateAll(ok)
    \/ LifespanShutdown
    \/ LifespanHealthAwaited
    \/ LifespanRefreshAwaited
    \/ \E ok \in BOOLEAN : refresh_token_background(ok)
    \/ RefresherCancelled
    \/ \E connected \in BOOLEAN : HealthProbeStart(connected)
    \/ \E ok \in BOOLEAN : HealthProbeFinish(ok)
    \/ HealthCancelled
    \/ Tick
    \/ \E r \in Req, h \in clients : Arrive(r, h)
    \/ \E r \in Req : get_async_db(r)
    \/ \E r \in Req : SessionCheckout(r)
    \/ \E r \in Req, ok \in BOOLEAN : SessionClose(r, ok)
    \/ \E r \in Req : Respond(r)
    \/ \E r \in Req, ok \in BOOLEAN : get_user_async_db(r, ok)
    \/ \E r \in Req : UserSessionConnect(r)
    \/ \E r \in Req, ok \in BOOLEAN : UserSessionClose(r, ok)
    \/ \E r \in Req : get_or_create_user_credentials(r)
    \/ \E r \in Req, ok \in BOOLEAN : create_user_credentials(r, ok)
    \/ \E r \in Req : store_user_credentials(r)
    \/ EnvChange

Spec == Init /\ [][Next]_vars

\* Shared mode alone.
InitShared == Init /\ ~user_based_auth_enabled /\ dependency = "shared"

NextShared ==
    \/ \E e \in BOOLEAN, f \in InitFailPoints : LifespanStartup(e, f)
    \/ \E ok \in BOOLEAN : LifespanCreateAll(ok)
    \/ LifespanShutdown
    \/ LifespanHealthAwaited
    \/ LifespanRefreshAwaited
    \/ \E ok \in BOOLEAN : refresh_token_background(ok)
    \/ RefresherCancelled
    \/ \E connected \in BOOLEAN : HealthProbeStart(connected)
    \/ \E ok \in BOOLEAN : HealthProbeFinish(ok)
    \/ HealthCancelled
    \/ Tick
    \/ \E r \in Req, h \in clients : Arrive(r, h)
    \/ \E r \in Req : get_async_db(r)
    \/ \E r \in Req : SessionCheckout(r)
    \/ \E r \in Req, ok \in BOOLEAN : SessionClose(r, ok)
    \/ \E r \in Req : Respond(r)

SpecShared == InitShared /\ [][NextShared]_vars

\* PerCaller mode alone, under the lifespan of src/app.py.
InitUser ==
    /\ Init /\ user_based_auth_enabled /\ entrypoint = "app"
    /\ clients = AliceClients /\ dependency \in {"db", "auth"}

NextUser ==
    \/ \E e \in BOOLEAN, f \in InitFailPoints : LifespanStartup(e, f)
    \/ LifespanShutdown
    \/ LifespanHealthAwaited
    \/ \E connected \in BOOLEAN : HealthProbeStart(connected)
    \/ HealthCancelled
    \/ Tick
    \/ \E r \in Req, h \in clients : Arrive(r, h)
    \/ \E r \in Req : Respond(r)
    \/ \E r \in Req, ok \in BOOLEAN : get_user_async_db(r, ok)
    \/ \E r \in Req : UserSessionConnect(r)
    \/ \E r \in Req, ok \in BOOLEAN : UserSessionClose(r, ok)
    \/ \E r \in Req : get_or_create_user_credentials(r)
    \/ \E r \in Req, ok \in BOOLEAN : create_user_credentials(r, ok)
    \/ \E r \in Req : store_user_credentials(r)

SpecUser == InitUser /\ [][NextUser]_vars

\* What the event loop and the clock do of themselves in PerCaller mode:
\* every step but the arrival of a request and the server's shutdown.
UserProgress ==
    \/ \E e \in BOOLEAN, f \in InitFailPoints : LifespanStartup(e, f)
    \/ LifespanHealthAwaited
    \/ \E connected \in BOOLEAN : HealthProbeStart(connected)
    \/ HealthCancelled
    \/ Tick
    \/ \E r \in Req : Respond(r)
    \/ \E r \in Req, ok \in BOOLEAN : get_user_async_db(r, ok)
    \/ \E r \in Req : UserSessionConnect(r)
    \/ \E r \in Req, ok \in BOOLEAN : UserSessionClose(r, ok)
    \/ \E r \in Req : get_or_create_user_credentials(r)
    \/ \E r \in Req, ok \in BOOLEAN : create_user_credentials(r, ok)
    \/ \E r \in Req : store_user_credentials(r)

\* PerCaller mode with its scheduling: the loop runs whatever is runnable,
\* timers fire and time passes; requests arrive or not.
FairSpecUser == SpecUser /\ WF_vars(UserProgress)

\* Requests through get_db in either mode: get_async_db on the shared engine,
\* get_user_async_db with an engine of its own for each request.
InitSessions ==
    /\ Init
    /\ dependency \in {"db", "shared"}
    /\ user_based_auth_enabled => entrypoint = "app" /\ clients = AliceClients

NextSessions ==
    \/ \E e \in BOOLEAN, f \in InitFailPoints : LifespanStartup(e, f)
    \/ \E ok \in BOOLEAN : LifespanCreateAll(ok)
    \/ LifespanShutdown
    \/ LifespanHealthAwaited
    \/ LifespanRefreshAwaited
    \/ \E ok \in BOOLEAN : refresh_token_background(ok)
    \/ RefresherCancelled
    \/ \E connected \in BOOLEAN : HealthProbeStart(connected)
    \/ \E ok \in BOOLEAN : HealthProbeFinish(ok)
    \/ HealthCancelled
    \/ Tick
    \/ \E r \in Req, h \in clients : Arrive(r, h)
    \/ \E r \in Req : get_async_db(r)
    \/ \E r \in Req : SessionCheckout(r)
    \/ \E r \in Req, ok \in BOOLEAN : SessionClose(r, ok)
    \/ \E r \in Req : Respond(r)
    \/ \E r \in Req, ok \in BOOLEAN : get_user_async_db(r, ok)
    \/ \E r \in Req : UserSessionConnect(r)
    \/ \E r \in Req, ok \in BOOLEAN : UserSessionClose(r, ok)

SpecSessions == InitSessions /\ [][NextSessions]_vars

\* PerCaller mode through get_db or through auth.py, one caller at a time,
\* with every combination of headers; the requests all arrive within one
\* tick of the clock, so no cache entry expires.
InitHeaders ==
    /\ Init /\ user_based_auth_enabled /\ entrypoint = "app"
    /\ clients = HeaderClients /\ dependency \in {"db", "auth"}

NextHeaders ==
    \/ \E e \in BOOLEAN, f \in InitFailPoints : LifespanStartup(e, f)
    \/ LifespanShutdown
    \/ LifespanHealthAwaited
    \/ \E connected \in BOOLEAN : HealthProbeStart(connected)
    \/ HealthCancelled
    \/ \E r \in Req, h \in clients : Arrive(r, h)
    \/ \E r \in Req : Respond(r)
    \/ \E r \in Req, ok \in BOOLEAN : get_user_async_db(r, ok)
    \/ \E r \in Req : UserSessionConnect(r)
    \/ \E r \in Req, ok \in BOOLEAN : UserSessionClose(r, ok)
    \/ \E r \in Req : get_or_create_user_credentials(r)
    \/ \E r \in Req, ok \in BOOLEAN : create_user_credentials(r, ok)
    \/ \E r \in Req : store_user_credentials(r)

SpecHeaders == InitHeaders /\ [][NextHeaders]_vars

\* PerCaller mode through get_db with two callers that send no identity
\* header, their requests all within one tick of the clock.
InitAnon ==
    /\ Init /\ user_based_auth_enabled /\ entrypoint = "app"
    /\ clients = AnonClients /\ dependency = "db"

NextAnon ==
    \/ \E e \in BOOLEAN, f \in InitFailPoints : LifespanStartup(e, f)
    \/ LifespanShutdown
    \/ LifespanHealthAwaited
    \/ \E connected \in BOOLEAN : HealthProbeStart(connected)
    \/ HealthCancelled
    \/ \E r \in Req, h \in clients : Arrive(r, h)
    \/ \E r \in Req : Respond(r)
    \/ \E r \in Req, ok \in BOOLEAN : get_user_async_db(r, ok)
    \/ \E r \in Req : UserSessionConnect(r)
    \/ \E r \in Req, ok \in BOOLEAN : UserSessionClose(r, ok)

SpecAnon == InitAnon /\ [][NextAnon]_vars

\* Requests through get_db_session while the environment variable changes,
\* all within one tick of the clock.
InitEnv ==
    /\ Init /\ entrypoint = "app" /\ dependency = "session"
    /\ user_based_auth_enabled => clients = AliceClients

NextEnv ==
    \/ \E e \in BOOLEAN, f \in InitFailPoints : LifespanStartup(e, f)
    \/ \E ok \in BOOLEAN : LifespanCreateAll(ok)
    \/ LifespanShutdown
    \/ LifespanHealthAwaited
    \/ LifespanRefreshAwaited
    \/ RefresherCancelled
    \/ \E connected \in BOOLEAN : HealthProbeStart(connected)
    \/ \E ok \in BOOLEAN : HealthProbeFinish(ok)
    \/ HealthCancelled
    \/ EnvChange
    \/ \E r \in Req, h \in clients : Arrive(r, h)
    \/ \E r \in Req : get_async_db(r)
    \/ \E r \in Req : SessionCheckout(r)
    \/ \E r \in Req, ok \in BOOLEAN : SessionClose(r, ok)
    \/ \E r \in Req : Respond(r)
    \/ \E r \in Req, ok \in BOOLEAN : UserSessionClose(r, ok)
    \/ \E r \in Req : get_or_create_user_credentials(r)
    \/ \E r \in Req, ok \in BOOLEAN : create_user_credentials(r, ok)
    \/ \E r \in Req : store_user_credentials(r)

SpecEnv == InitEnv /\ [][NextEnv]_vars

\* PerCaller mode through get_db with two callers, "alice" and "bob", over
\* the lifetime of their cache entries.
InitPair ==
    /\ Init /\ user_based_auth_enabled /\ entrypoint = "app"
    /\ clients = PairClients /\ dependency = "db"

\* Each of the two callers has one request at a time: alice's are in slot 1,
\* bob's in slot 2.
PairClient(r) ==
    IF r = 1 THEN Headers("t1", "alice", Absent) ELSE Headers("t2", "bob", Absent)

NextPair ==
    \/ \E e \in BOOLEAN, f \in InitFailPoints : LifespanStartup(e, f)
    \/ LifespanShutdown
    \/ LifespanHealthAwaited
    \/ \E connected \in BOOLEAN : HealthProbeStart(connected)
    \/ HealthCancelled
    \/ Tick
    \/ \E r \in Req : Arrive(r, PairClient(r))
    \/ \E r \in Req : Respond(r)
    \/ \E r \in Req, ok \in BOOLEAN : get_user_async_db(r, ok)
    \/ \E r \in Req : UserSessionConnect(r)
    \/ \E r \in Req, ok \in BOOLEAN : UserSessionClose(r, ok)

SpecPair == InitPair /\ [][NextPair]_vars

\* ================================================================ properties
\* The cache of the dependency in use, seen through one interface.
HasEntry(i) ==
    IF dependency = "db" THEN user_credential_cache[i].present
    ELSE auth_credentials_cache[i].present

EntryToken(i) ==
    IF dependency = "db" THEN user_credential_cache[i].token
    ELSE auth_credentials_cache[i].db_oauth_token

\* Token t is within the soft TTL of the cache in use: 45 minutes from its
\* issue in database.py, 55 minutes in auth.py.
WithinSoftTTL(t) ==
    IF dependency = "db" THEN now < t.at + USER_TOKEN_CACHE_DURATION
    ELSE now - t.at <= TOKEN_TTL_SECONDS

\* Steps of request r: its lookup begins, returns a credential, raises.
LookupBegins(r) == req[r].pc = "pending" /\ req'[r].pc # "pending"
Returned(r) == req[r].result = "none" /\ req'[r].result \in {"cached", "issued"}
Erred(r) == req[r].result = "none" /\ req'[r].result = "error"
CallsProvider(r) == req'[r] # req[r] /\ provider_calls' = provider_calls + 1

\* C1: among credential lookups for one identity whose executions overlap, at
\* most one makes an issuance call: a lookup calls the provider only when no
\* lookup for the same identity that overlaps it has called it already.
SingleFlightIssuance ==
    [][\A r \in Req :
          CallsProvider(r) => flight_calls[LookupIdent(req[r])] = 0]_vars

\* C2: a credential returned by a per-caller lookup, cached or freshly issued,
\* was issued less than the provider lifetime before the moment it is returned.
ReturnedCredentialNotExpired ==
    [][\A r \in Req :
          Returned(r) => now - req'[r].cred.at < HARD_EXPIRY]_vars

\* A lookup has returned a cached credential at the last instant of the
\* 55-minute cache's soft TTL.
CachedAtSoftTTLEdge ==
    \E r \in Req :
        /\ req[r].result = "cached"
        /\ now - req[r].cred.at = TOKEN_TTL_SECONDS

\* The connections consumers of the shared engine hold.
CheckedOut ==
    {req[r].conn : r \in {o \in Req : req[o].path = "shared" /\ req[o].conn.open}}
        \cup (IF health_check_task.conn.open THEN {health_check_task.conn} ELSE {})

\* C3: while the refresher runs at its interval and no refresh has failed,
\* every connection checked out of the shared engine was opened with a token
\* issued less than the hard-expiry lifetime ago.
PoolNeverServesExpiredToken ==
    (TaskAlive(token_refresh_task) /\ refresh_failures = 0)
        => \A c \in CheckedOut : now - c.token.at < HARD_EXPIRY

\* C4: while the refresher runs, whatever refreshes succeeded or failed,
\* whenever a Shared-mode request has a new connection opened, the token then
\* published in postgres_password is not past its hard expiry.
NoRequestConnectsWithExpiredToken ==
    TaskAlive(token_refresh_task)
        => \A r \in Req :
              (req[r].path = "shared" /\ req[r].conn.open
                  /\ req[r].conn.opened_at = now)
                  => now - req[r].conn.token.at < HARD_EXPIRY

\* C5: last_password_refresh never decreases, and a refresh that follows no
\* failed attempt publishes a later credential no later than the hard expiry
\* of the credential it replaces.
RefreshAdvancesWithoutGap ==
    [][/\ last_password_refresh' >= last_password_refresh
       /\ (postgres_password # NoToken /\ postgres_password' # postgres_password
              /\ refresh_failures = 0)
            => /\ last_password_refresh' > last_password_refresh
               /\ last_password_refresh' <= last_password_refresh + HARD_EXPIRY
               /\ postgres_password'.at = last_password_refresh'
               /\ postgres_password.at = last_password_refresh]_vars

\* The refresher has run two intervals, both issuances succeeding: the
\* second refresh's token is published while a pooled connection still
\* carries the first refresh's.
TwoRefreshesSucceeded ==
    /\ postgres_password.n = 3
    /\ last_password_refresh = 2 * REFRESH_INTERVAL
    /\ refresh_failures = 0
    /\ \E k \in DOMAIN pool : pool[k].token.n = 2

\* C6: a failed issuance in the refresher loop leaves postgres_password and
\* last_password_refresh as they were, and the task alive at its next sleep.
FailedRefreshKeepsCredential ==
    [][refresh_failures' > refresh_failures
          => /\ postgres_password' = postgres_password
             /\ last_password_refresh' = last_password_refresh
             /\ token_refresh_task'.st = "sleeping"
             /\ ~token_refresh_task'.cancel
             /\ token_refresh_task'.wake_at = now + REFRESH_INTERVAL]_vars

\* The refresher's first issuance has failed: the initial credential is still
\* published and the task sleeps towards its next turn.
RefreshFailedOnce ==
    /\ refresh_failures = 1
    /\ postgres_password.n = 1
    /\ last_password_refresh = 0
    /\ token_refresh_task.st = "sleeping"
    /\ token_refresh_task.wake_at = 2 * REFRESH_INTERVAL

\* C7: when shutdown has completed both background tasks have finished, and
\* from then on no issuance call is made and no connection is checked out.
NoActivityAfterShutdown ==
    /\ [](lifespan_pc = "complete"
            => ~TaskAlive(token_refresh_task) /\ ~TaskAlive(health_check_task))
    /\ [][lifespan_pc = "complete"
            => /\ provider_calls' = provider_calls
               /\ pool' = pool
               /\ postgres_password' = postgres_password
               /\ UNCHANGED taskVars]_vars

\* Shutdown has completed after cancelling a refresher and a probe.
ShutdownCancelledBothTasks ==
    /\ lifespan_pc = "complete"
    /\ token_refresh_task.st = "cancelled"
    /\ health_check_task.st = "cancelled"

\* C8: a lookup that fails for an identity with no cache entry surfaces an
\* error and leaves no entry; a lookup that issues stores the credential it
\* returns; a lookup that finds an entry within the soft TTL returns that
\* entry's credential without an issuance call.
FailedLookupLeavesNoEntry ==
    [][\A r \in Req :
          LET i == LookupIdent(req[r]) IN
          /\ (Erred(r) /\ ~HasEntry(i))
                => /\ ~HasEntry(i)'
                   /\ req'[r].pc = "failed"
                   /\ req'[r].cred = NoToken
          /\ (Returned(r) /\ req'[r].result = "issued")
                => /\ HasEntry(i)'
                   /\ EntryToken(i)' = req'[r].cred
                   /\ WithinSoftTTL(req'[r].cred)
          /\ (LookupBegins(r) /\ i # "" /\ HasEntry(i) /\ WithinSoftTTL(EntryToken(i)))
                => /\ req'[r].result = "cached"
                   /\ req'[r].cred = EntryToken(i)
                   /\ provider_calls' = provider_calls
                   /\ UNCHANGED << user_credential_cache, auth_credentials_cache >>]_vars

\* In database.py a lookup for an uncached identity has failed, a retry has
\* issued and stored a credential, and a later lookup has returned it from
\* the cache.
FailedThenRetriedThenCached ==
    /\ dependency = "db"
    /\ \E r \in Req, o \in Req :
          /\ req[r].result = "error" /\ ~req[r].stale
          /\ req[r].exc = "RuntimeError"
          /\ req[o].result = "cached"
          /\ req[o].ident = req[r].ident
          /\ req[o].cred = EntryToken(req[o].ident)

\* C9 as stated: when the re-issuance for a stale entry fails, the cache still
\* holds that identity's entry afterwards.
StaleEntryKeptOnFailure ==
    [][\A r \in Req :
          (Erred(r) /\ req'[r].stale) => HasEntry(LookupIdent(req[r]))']_vars

\* C9 amended: when the re-issuance for a stale entry fails the lookup raises;
\* auth.py leaves its cache as it was, the stale entry included, database.py
\* has deleted the stale entry; and no lookup returns a credential past the
\* soft TTL.
StaleEntryOnFailure ==
    [][\A r \in Req :
          LET i == LookupIdent(req[r]) IN
          /\ (Erred(r) /\ req'[r].stale)
                => /\ req'[r].pc = "failed"
                   /\ req'[r].cred = NoToken
                   /\ dependency = "auth"
                         => HasEntry(i)' /\ UNCHANGED auth_credentials_cache
                   /\ dependency = "db" => ~HasEntry(i)'
          /\ Returned(r) => WithinSoftTTL(req'[r].cred)]_vars

\* In database.py a lookup found a stale entry, deleted it, and its
\* re-issuance failed: the cache holds no entry for the identity.
StaleReissueFailed ==
    /\ dependency = "db"
    /\ \E r \in Req :
          /\ req[r].result = "error" /\ req[r].stale
          /\ req[r].exc = "RuntimeError"
          /\ ~HasEntry(req[r].ident)

\* C10: a PerCaller request without the access-token header is rejected with
\* no WorkspaceClient built, no issuance call, no cache entry added or
\* changed and no engine created.
MissingTokenRejectedFirst ==
    [][\A r \in Req :
          (LookupBegins(r) /\ req[r].path \in {"db", "auth"} /\ Falsy(req[r].hdr_token))
             => /\ req'[r].pc = "failed"
                /\ req'[r].result = "rejected"
                /\ ~req'[r].engine
                /\ UNCHANGED << provider_calls, ws_clients, user_credential_cache,
                                auth_credentials_cache, database_instance >>]_vars

\* A request without the access-token header has been rejected.
TokenlessRequestRejected ==
    \E r \in Req :
        /\ req[r].result = "rejected"
        /\ Falsy(req[r].hdr_token)
        /\ req[r].path = "db"

\* C11: a PerCaller request rejected for a missing trust header is answered
\* with status 401, on the database.py path and on the auth.py path.
MissingHeadersAnswered401 ==
    \A r \in Req :
        req[r].result = "rejected" => ResponseStatus(req[r].exc) = 401

\* C12: in get_user_async_db a request with the access token and without the
\* identity label is not rejected, and its cache key is the forwarded-user
\* header when that is present and the placeholder "unknown_user" otherwise:
\* the lookup reads and writes that identity's entry and no other.
IdentityLabelFallback ==
    [][\A r \in Req :
          LET q == req[r]
              key == IF ~Falsy(q.hdr_user) THEN q.hdr_user ELSE "unknown_user"
          IN (LookupBegins(r) /\ q.path = "db" /\ ~Falsy(q.hdr_token)
                  /\ Falsy(q.hdr_email))
                => /\ req'[r].result # "rejected"
                   /\ req'[r].ident = key
                   /\ \A j \in Identities \ {key} :
                          user_credential_cache'[j] = user_credential_cache[j]
                   /\ req'[r].result \in {"cached", "issued"}
                          => /\ user_credential_cache'[key].present
                             /\ user_credential_cache'[key].token = req'[r].cred
                   /\ req'[r].result = "cached"
                          => user_credential_cache[key].present]_vars

\* A request without the identity label has a session under the identity of
\* its forwarded-user header, and the placeholder identity has an entry from
\* a request that carried neither.
FallbackIdentitiesUsed ==
    /\ \E r \in Req :
          /\ req[r].pc = "session" /\ req[r].path = "db"
          /\ Falsy(req[r].hdr_email) /\ req[r].hdr_user = "bob"
          /\ req[r].ident = "bob"
    /\ user_credential_cache["unknown_user"].present

\* C14: every per-request engine alive belongs to a request whose session is
\* still open, so none is left when the requests have finished; and when a
\* request's unit of work ends, returning or raising, its connection is back
\* in the shared pool or closed with its own engine, which is disposed.
SessionsAlwaysReleased ==
    /\ [](user_engines = Cardinality({r \in Req : req[r].engine}))
    /\ []((\A r \in Req : req[r].pc \in {"idle", "failed"}) => user_engines = 0)
    /\ [][\A r \in Req :
            (req[r].pc = "session" /\ req'[r].pc # "session")
               => /\ ~req'[r].engine
                  /\ ~req'[r].conn.open
                  /\ req[r].engine => user_engines' = user_engines - 1
                  /\ (req[r].path = "shared" /\ req[r].conn.open)
                        => /\ Len(pool') = Len(pool) + 1
                           /\ pool'[Len(pool')] = req[r].conn]_vars

\* A PerCaller request's handler has raised on an open connection and the
\* request's engine is disposed.
HandlerRaisedEngineDisposed ==
    \E r \in Req :
        /\ req[r].path = "db"
        /\ req[r].pc = "failed"
        /\ req[r].exc = "SQLAlchemyError"
        /\ req[r].cred # NoToken
        /\ user_engines = 0

\* C13: two requests with different identity labels that hold sessions at
\* once hold different credentials, each issued under its own access token;
\* and a step of a request labelled L (its lookup, its connect, the disposal
\* of its engine) changes no cache entry but L's, no other request's engine,
\* connection or credential, and the number of engines only by its own.
IdentitiesIndependent ==
    /\ [](\A r \in Req, o \in Req :
             (r # o /\ req[r].pc = "session" /\ req[o].pc = "session"
                 /\ req[r].hdr_email # req[o].hdr_email)
                => /\ req[r].cred # req[o].cred
                   /\ req[r].cred.by = req[r].hdr_token)
    /\ [][\A r \in Req :
            (req'[r] # req[r] /\ ~Falsy(req[r].hdr_email))
               => /\ \A j \in Identities \ {req[r].hdr_email} :
                        /\ user_credential_cache'[j] = user_credential_cache[j]
                        /\ auth_credentials_cache'[j] = auth_credentials_cache[j]
                  /\ \A o \in Req \ {r} : req'[o] = req[o]
                  /\ user_engines' - user_engines =
                        (IF req'[r].engine THEN 1 ELSE 0)
                            - (IF req[r].engine THEN 1 ELSE 0)]_vars

\* bob holds a session on an open connection of his own engine, under his own
\* cached credential, after alice's stale entry was replaced and her
\* request's handler raised and her engine was disposed.
BobKeepsSessionAfterAlice ==
    \E r \in Req, o \in Req :
        /\ req[o].hdr_email = "bob" /\ req[o].pc = "session"
        /\ req[o].engine /\ req[o].conn.open
        /\ req[o].conn.token = user_credential_cache["bob"].token
        /\ req[o].cred.by = "t2"
        /\ req[r].hdr_email = "alice" /\ req[r].pc = "failed"
        /\ req[r].exc = "SQLAlchemyError" /\ req[r].stale
        /\ user_credential_cache["alice"].token.n > req[o].cred.n
        /\ user_engines = 1

\* C15: once the lifespan's shutdown has completed, after a startup that
\* brought the background tasks up, the shared engine's pool holds no open
\* connection and no per-request engine is left undisposed.
AllPoolsDisposedAfterShutdown ==
    (lifespan_pc = "complete" /\ token_refresh_task.st = "cancelled")
        => (pool = << >> /\ user_engines = 0)

\* C16: every request is routed by the mode that was in effect at startup: to
\* a per-caller provider if and only if user_based_auth_enabled.
RoutedByStartupMode ==
    \A r \in Req :
        req[r].pc # "idle"
            => ((req[r].path \in {"db", "auth"}) <=> user_based_auth_enabled)

\* C17: whenever the health probe task is alive the shared engine has been
\* initialised; in particular no probe task runs in PerCaller mode.
ProbeOnlyWithSharedPool ==
    TaskAlive(health_check_task) => (engine /\ ~user_based_auth_enabled)

\* A probe of the health task ends in this step: database_health() returns.
ProbeEnds ==
    /\ ~health_check_task.cancel
    /\ \/ health_check_task.st = "probing" /\ health_check_task'.st # "probing"
       \/ /\ health_check_task.st = "sleeping"
          /\ health_check_task'.st # "probing"
          /\ health_check_task'.wake_at # health_check_task.wake_at

\* C18: every probe ends with a result, healthy or unhealthy, and with the
\* task asleep until the next interval: an exception in the probe ends as
\* the result unhealthy and never ends the task.
FailedProbeNeverEndsTask ==
    [][ProbeEnds
          => /\ health_check_task'.healthy \in {"yes", "no"}
             /\ health_check_task'.st = "sleeping"
             /\ ~health_check_task'.cancel
             /\ health_check_task'.wake_at = now + HEALTH_INTERVAL]_vars

\* The liveness query of a probe on the shared engine has raised: the result
\* is unhealthy, the connection is back in the pool and the task sleeps.
ProbeFailedTaskSleeps ==
    /\ engine
    /\ pool # << >>
    /\ health_check_task.healthy = "no"
    /\ health_check_task.st = "sleeping"
    /\ health_check_task.wake_at = now + HEALTH_INTERVAL
    /\ now >= 2 * HEALTH_INTERVAL

\* C19: a cache entry left untouched is eventually removed with no further
\* request: it never happens that from some moment on, with the application
\* running and no request in flight, an identity's entry stays in the cache
\* past its soft TTL for ever.
IdleEntryEventuallyEvicted ==
    \A i \in Identities :
        []<>(\/ ~HasEntry(i)
             \/ WithinSoftTTL(EntryToken(i))
             \/ lifespan_pc # "running"
             \/ \E r \in Req : req[r].pc # "idle")


\* C20: per-caller refresh is linearizable within one identity: a lookup that
\* completes while the cache holds a stored credential for its identity
\* returns that credential or one the provider issued later, never one issued
\* before it.
RefreshLinearizable ==
    [][\A r \in Req, i \in Identities :
          (Returned(r) /\ req'[r].ident = i /\ HasEntry(i))
              => req'[r].cred.n >= EntryToken(i).n]_vars


\* The shared credential slot.
SharedSlot == << postgres_password, last_password_refresh >>

\* A turn of the refresher's loop.
RefresherTurn ==
    /\ token_refresh_task.st = "sleeping"
    /\ now = token_refresh_task.wake_at
    /\ provider_calls' = provider_calls + 1
    /\ req' = req

\* The next step of Shared-mode request r can be taken.
SharedStepEnabled(r) ==
    /\ req[r].pc = "pending" => ENABLED get_async_db(r)
    /\ (req[r].pc = "session" /\ ~req[r].conn.open) => ENABLED SessionCheckout(r)
    /\ req[r].pc = "session" => ENABLED SessionClose(r, TRUE)

\* C21: once startup is over, the shared credential slot is written by the
\* refresher task alone: a step of a Shared-mode request leaves the slot as
\* it is and makes no issuance call, and the request's next step can always
\* be taken, whatever the refresher is doing.
SlotWrittenOnlyByRefresher ==
    /\ [](\A r \in Req : req[r].path = "shared" => SharedStepEnabled(r))
    /\ [][lifespan_pc = "running"
            => /\ SharedSlot' # SharedSlot => RefresherTurn
               /\ req' # req => /\ SharedSlot' = SharedSlot
                                /\ provider_calls' = provider_calls]_vars

\* A request holds a connection opened with a token the refresher published.
RequestReadsRefreshedToken ==
    \E r \in Req :
        /\ req[r].path = "shared"
        /\ req[r].conn.open
        /\ req[r].conn.token = postgres_password
        /\ postgres_password.n >= 2
        /\ TaskAlive(token_refresh_task)


\* C22: the shared credential and the shared pool are never left partly
\* updated by an error: in a process that goes on running, either no token
\* is published and there is neither engine nor session factory, or a token
\* is published and both exist.
SharedStateWhole ==
    lifespan_pc # "crashed"
        => \/ postgres_password = NoToken /\ ~engine /\ ~AsyncSessionLocal
           \/ postgres_password # NoToken /\ engine /\ AsyncSessionLocal


\* C23: the identity used as credential-cache key is never empty: neither
\* cache holds an entry under the empty string, and no request has a
\* credential looked up under it.
CacheKeyNeverEmpty ==
    /\ ~user_credential_cache[""].present
    /\ ~auth_credentials_cache[""].present
    /\ \A r \in Req :
          (req[r].path \in {"db", "auth"} /\ req[r].pc \in {"issuing", "storing", "session"})
              => req[r].ident # ""

\* A request whose identity headers are both empty strings has a session
\* under the placeholder identity.
EmptyHeadersUsePlaceholder ==
    \E r \in Req :
        /\ req[r].hdr_email = "" /\ req[r].hdr_user = ""
        /\ req[r].pc = "session"
        /\ req[r].ident = "unknown_user"
        /\ user_credential_cache["unknown_user"].present


\* C24: the credential a PerCaller request opens its session with was minted
\* by exchanging the access token that request carries: a request never has
\* a credential minted under another access token.
CredentialScopedToCaller ==
    \A r \in Req :
        (req[r].path \in {"db", "auth"} /\ req[r].result \in {"cached", "issued"})
            => req[r].cred.by = req[r].hdr_token


\* C25: in Shared mode under the lifespan of app.py, whenever requests can
\* obtain sessions from the shared pool between the end of startup and the
\* beginning of shutdown, the refresher task has been started and is running.
RefresherRunsWhilePoolServes ==
    (~user_based_auth_enabled /\ entrypoint = "app" /\ lifespan_pc = "running"
        /\ AsyncSessionLocal)
        => TaskAlive(token_refresh_task)

====
